---- MODULE Spec2Model ----
(***************************************************************************)
(* The restaurant handlers of controllers/restaurantController.js as a     *)
(* state machine.  The state is the Restaurant and the Permission          *)
(* collection plus the requests in flight.  A handler is an async          *)
(* function: it runs without interruption from one await to the next, so   *)
(* every action below is the effect of one awaited call together with the  *)
(* synchronous code that follows it, up to the next await.  Requests       *)
(* interleave at their awaits.                                              *)
(*                                                                         *)
(* JavaScript values are tagged records [t, v]; a string is the sequence   *)
(* of its characters.  Request bodies hold the types a multipart form      *)
(* yields: strings, arrays of strings, nested objects, or nothing.         *)
(***************************************************************************)
EXTENDS Integers, Sequences, FiniteSets, TLC

VARIABLES restaurants, permissions, nextId, req

vars == <<restaurants, permissions, nextId, req>>

\* Bounds of the model.
MaxRestaurants == 2
MaxKycDocs == 2

\* The request slots: at most this many handlers are in flight together.
Reqs == {"q1", "q2"}

----------------------------------------------------------------------------
(* JavaScript values *)

Undefined == [t |-> "undefined", v |-> <<>>]
Null == [t |-> "null", v |-> <<>>]
Str(s) == [t |-> "string", v |-> s]
Arr(a) == [t |-> "array", v |-> a]
Obj(o) == [t |-> "object", v |-> o]
Bool(b) == [t |-> "boolean", v |-> b]

\* !x for the values of the model.
Falsy(x) ==
  \/ x.t \in {"undefined", "null"}
  \/ x.t = "string" /\ x.v = <<>>
  \/ x.t = "boolean" /\ x.v = FALSE

\* value?.[f]
Prop(x, f) ==
  IF x.t = "object" /\ f \in DOMAIN x.v THEN x.v[f] ELSE Undefined

IsSpace(c) == c \in {" ", "\t", "\n"}

RECURSIVE TrimStart(_)
TrimStart(s) ==
  IF s # <<>> /\ IsSpace(Head(s)) THEN TrimStart(Tail(s)) ELSE s

RECURSIVE TrimEnd(_)
TrimEnd(s) ==
  IF s # <<>> /\ IsSpace(s[Len(s)]) THEN TrimEnd(SubSeq(s, 1, Len(s) - 1)) ELSE s

\* String.prototype.trim
Trim(s) == TrimEnd(TrimStart(s))

\* String.prototype.split(sep) for a one-character separator: always at least
\* one piece, the empty string splits into one empty piece.
RECURSIVE SplitFrom(_, _, _)
SplitFrom(s, sep, cur) ==
  IF s = <<>> THEN <<cur>>
  ELSE IF Head(s) = sep THEN <<cur>> \o SplitFrom(Tail(s), sep, <<>>)
  ELSE SplitFrom(Tail(s), sep, Append(cur, Head(s)))

Split(s, sep) == SplitFrom(s, sep, <<>>)

\* Array.prototype.map over a sequence.
Map(a, F(_)) == [i \in 1..Len(a) |-> F(a[i])]

Digits == {"0", "1", "2", "3", "4", "5", "6", "7", "8", "9"}

\* JSON.parse on the JSON texts made of arrays, the empty object and
\* one-digit numbers; every other text is a SyntaxError.  The result is
\* [ok, val, rest].
RECURSIVE ParseValue(_)
RECURSIVE ParseElements(_, _)
ParseValue(s) ==
  LET t == TrimStart(s)
      fail == [ok |-> FALSE, val |-> Undefined, rest |-> <<>>]
  IN IF t = <<>> THEN fail
     ELSE IF Head(t) \in Digits
       THEN [ok |-> TRUE, val |-> [t |-> "number", v |-> Head(t)], rest |-> Tail(t)]
     ELSE IF Head(t) = "{"
       THEN LET u == TrimStart(Tail(t))
            IN IF u # <<>> /\ Head(u) = "}"
                 THEN [ok |-> TRUE, val |-> Obj(<<>>), rest |-> Tail(u)]
                 ELSE fail
     ELSE IF Head(t) = "["
       THEN LET u == TrimStart(Tail(t))
            IN IF u # <<>> /\ Head(u) = "]"
                 THEN [ok |-> TRUE, val |-> Arr(<<>>), rest |-> Tail(u)]
                 ELSE ParseElements(u, <<>>)
     ELSE fail

ParseElements(s, acc) ==
  LET r == ParseValue(s)
      fail == [ok |-> FALSE, val |-> Undefined, rest |-> <<>>]
  IN IF ~r.ok THEN fail
     ELSE LET u == TrimStart(r.rest)
          IN IF u = <<>> THEN fail
             ELSE IF Head(u) = "]"
               THEN [ok |-> TRUE, val |-> Arr(Append(acc, r.val)), rest |-> Tail(u)]
             ELSE IF Head(u) = ","
               THEN ParseElements(Tail(u), Append(acc, r.val))
             ELSE fail

JSONParse(s) ==
  LET r == ParseValue(s)
  IN IF r.ok /\ TrimStart(r.rest) = <<>>
       THEN [ok |-> TRUE, val |-> r.val]
       ELSE [ok |-> FALSE, val |-> Undefined]

----------------------------------------------------------------------------
(* Texts *)

Chars(n, c) == [i \in 1..n |-> c]

T_veg == <<"v", "e", "g">>
T_nonveg == <<"n", "o", "n", "-", "v", "e", "g">>
T_both == <<"b", "o", "t", "h">>
T_online == <<"o", "n", "l", "i", "n", "e">>
T_cod == <<"c", "o", "d">>
T_wallet == <<"w", "a", "l", "l", "e", "t">>
T_bogus == <<"b", "o", "g", "u", "s">>

----------------------------------------------------------------------------
(* Responses and requests *)

Resp(status, code, message, data) ==
  [status |-> status, code |-> code, message |-> message, data |-> data]

NoResp == Resp(0, "", "", <<>>)

\* A well-formed ObjectId is <<"oid", n>>; <<"bad", 0>> stands for the
\* strings that are no ObjectId.
Oid(n) == <<"oid", n>>
MalformedId == <<"bad", 0>>
NoId == <<"none", 0>>

Idle ==
  [op |-> "idle", pc |-> "idle", id |-> NoId, body |-> Undefined,
   files |-> Undefined, local |-> <<>>, stale |-> FALSE, resp |-> NoResp,
   log |-> <<>>]

\* res.status(..).json(..): the request is over.
Respond(r, resp) ==
  [r EXCEPT !.pc = "done", !.resp = resp,
            !.log = Append(r.log, [e |-> "respond", doc |-> "", id |-> NoId, data |-> resp.status])]

\* One entry of a request's log: a call it awaited and how the call ended,
\* or a call it started.
Ev(e, doc, id, data) == [e |-> e, doc |-> doc, id |-> id, data |-> data]

Logged(r, ev) == [r EXCEPT !.log = Append(@, ev)]

InFlight(q) == req[q].pc \notin {"idle", "done"}

----------------------------------------------------------------------------
(* createRestaurant: validation, steps 1 to 6 *)

requiredFields ==
  << <<"name">>, <<"ownerName">>, <<"phone">>, <<"email">>, <<"password">>,
     <<"fssaiNumber">>, <<"gstNumber">>, <<"aadharNumber">>,
     <<"address", "street">>, <<"address", "city">>, <<"address", "state">>,
     <<"foodType">>, <<"openingHours">> >>

\* The walk along a dotted path, lines 27-32.
RECURSIVE Resolve(_, _)
Resolve(value, nestedFields) ==
  IF nestedFields = <<>> THEN value
  ELSE LET next == Prop(value, Head(nestedFields))
       IN IF next = Undefined THEN Undefined
          ELSE Resolve(next, Tail(nestedFields))

IsMissingField(body, field) ==
  LET value == Resolve(body, field)
  IN value = Undefined \/ value = Str(<<>>)

missingFields(body) ==
  SelectSeq(requiredFields, LAMBDA field : IsMissingField(body, field))

PasswordMinLength == 8

WeakPassword(body) == Len(Prop(body, "password").v) < PasswordMinLength

validFoodTypes == {T_veg, T_nonveg, T_both}

InvalidFoodType(body) == Trim(Prop(body, "foodType").v) \notin validFoodTypes

\* JSON.parse followed by Array.isArray; a SyntaxError and a non-array both
\* end in the catch of lines 68-74.
InvalidOpeningHours(body) ==
  LET r == JSONParse(Prop(body, "openingHours").v)
  IN ~r.ok \/ r.val.t # "array"

requiredDocs == <<"fssaiDoc", "gstDoc", "aadharDoc">>

\* req.files?.[doc]?.[0]
FirstFile(files, doc) ==
  LET list == Prop(files, doc)
  IN IF list.t = "array" /\ Len(list.v) > 0 THEN list.v[1] ELSE Undefined

missingDocs(files) ==
  SelectSeq(requiredDocs, LAMBDA doc : Falsy(FirstFile(files, doc)))

allowedPaymentMethods == {Str(T_online), Str(T_cod), Str(T_wallet)}

\* Lines 97-103: a string is split on commas and each piece trimmed, an
\* absent value becomes ['online'], an array is taken as it is.
NormalizePaymentMethods(pm) ==
  IF pm.t = "string" THEN Map(Split(pm.v, ","), LAMBDA m : Str(Trim(m)))
  ELSE IF Falsy(pm) THEN <<Str(T_online)>>
  ELSE pm.v

invalidMethods(body) ==
  SelectSeq(NormalizePaymentMethods(Prop(body, "paymentMethods")),
            LAMBDA m : m \notin allowedPaymentMethods)

\* The checks with the foodType looked at before the password.
ValidationFailure_FoodTypeFirst(body, files) ==
  IF missingFields(body) # <<>> THEN "REQUIRED_FIELD_MISSING"
  ELSE IF InvalidFoodType(body) THEN "INVALID_FOOD_TYPE"
  ELSE IF WeakPassword(body) THEN "WEAK_PASSWORD"
  ELSE IF InvalidOpeningHours(body) THEN "INVALID_OPENING_HOURS"
  ELSE IF missingDocs(files) # <<>> THEN "DOCUMENT_REQUIRED"
  ELSE IF invalidMethods(body) # <<>> THEN "INVALID_PAYMENT_METHODS"
  ELSE ""

\* The checks without the one of the payment methods.
ValidationFailure_NoPaymentCheck(body, files) ==
  IF missingFields(body) # <<>> THEN "REQUIRED_FIELD_MISSING"
  ELSE IF WeakPassword(body) THEN "WEAK_PASSWORD"
  ELSE IF InvalidFoodType(body) THEN "INVALID_FOOD_TYPE"
  ELSE IF InvalidOpeningHours(body) THEN "INVALID_OPENING_HOURS"
  ELSE IF missingDocs(files) # <<>> THEN "DOCUMENT_REQUIRED"
  ELSE ""

\* The first failing check decides the response; "" when all six pass.
ValidationFailure(body, files) ==
  IF missingFields(body) # <<>> THEN "REQUIRED_FIELD_MISSING"
  ELSE IF WeakPassword(body) THEN "WEAK_PASSWORD"
  ELSE IF InvalidFoodType(body) THEN "INVALID_FOOD_TYPE"
  ELSE IF InvalidOpeningHours(body) THEN "INVALID_OPENING_HOURS"
  ELSE IF missingDocs(files) # <<>> THEN "DOCUMENT_REQUIRED"
  ELSE IF invalidMethods(body) # <<>> THEN "INVALID_PAYMENT_METHODS"
  ELSE ""

\* The 400 response of each check.  The payment-method response carries no
\* code field (lines 107-110); its message names it here.
ValidationResponse(failure, body, files) ==
  CASE failure = "REQUIRED_FIELD_MISSING" ->
         Resp(400, failure, "Missing required fields", missingFields(body))
    [] failure = "WEAK_PASSWORD" ->
         Resp(400, failure, "Password must be at least 8 characters long", <<>>)
    [] failure = "INVALID_FOOD_TYPE" ->
         Resp(400, failure, "Invalid foodType", <<>>)
    [] failure = "INVALID_OPENING_HOURS" ->
         Resp(400, failure, "Invalid openingHours", <<>>)
    [] failure = "DOCUMENT_REQUIRED" ->
         Resp(400, failure, "Missing documents", missingDocs(files))
    [] failure = "INVALID_PAYMENT_METHODS" ->
         Resp(400, "", "Invalid payment methods", invalidMethods(body))

----------------------------------------------------------------------------
(* The collections *)

\* The fields a new document gets from the schema of models/restaurantModel
\* when the handler gives none.
SchemaDefaults ==
  [name |-> Str(<<>>), kycDocuments |-> Arr(<<>>), kycStatus |-> "not-submitted",
   businessHours |-> Obj(<<>>), serviceAreas |-> Arr(<<>>), images |-> Arr(<<>>),
   approvalStatus |-> "pending"]

\* A grant that lets the new restaurant accept orders.
DefaultPermissions_AcceptsOrders ==
  [canManageMenu |-> TRUE, canAcceptOrder |-> TRUE, canRejectOrder |-> FALSE,
   canManageOffers |-> FALSE, canViewReports |-> TRUE]

\* The default grant of lines 168-174.
DefaultPermissions ==
  [canManageMenu |-> TRUE, canAcceptOrder |-> FALSE, canRejectOrder |-> FALSE,
   canManageOffers |-> FALSE, canViewReports |-> TRUE]

Exists(id) == id \in DOMAIN restaurants

\* Model.create / document.save: the collection with the document at id.
Put(coll, id, doc) == [k \in DOMAIN coll \cup {id} |-> IF k = id THEN doc ELSE coll[k]]

\* document.deleteOne
Remove(coll, id) == [k \in DOMAIN coll \ {id} |-> coll[k]]

\* Permission.deleteOne({restaurantId}): the first matching record goes.
RECURSIVE DeleteOnePermission(_, _)
DeleteOnePermission(perms, id) ==
  IF perms = <<>> THEN <<>>
  ELSE IF Head(perms).restaurantId = id THEN Tail(perms)
  ELSE <<Head(perms)>> \o DeleteOnePermission(Tail(perms), id)

PermissionsOf(id) == SelectSeq(permissions, LAMBDA p : p.restaurantId = id)

\* uploadOnCloudinary(path): the result object with the durable URL, null
\* when the service gave no result; it may also raise.
UploadOutcomes == {"ok", "null", "throw"}
UrlOf(path) == Str(<<"https://", path>>)
UploadResult(path, outcome) ==
  IF outcome = "ok" THEN Obj([secure_url |-> UrlOf(path)]) ELSE Null

\* The catch of a handler: one 500 response.
ServerError(message) == Resp(500, "", message, <<>>)

----------------------------------------------------------------------------
(* createRestaurant *)

CreatesPending ==
  Cardinality({r \in Reqs : req[r].op = "createRestaurant" /\ InFlight(r)})

\* Lines 13-115: the six checks, then bcrypt.genSalt is awaited.
CreateStart(q, body, files) ==
  /\ req[q].pc = "idle"
  /\ LET failure == ValidationFailure(body, files)
         r == [Idle EXCEPT !.op = "createRestaurant", !.body = body, !.files = files]
     IN IF failure # ""
          THEN req' = [req EXCEPT ![q] = Respond(r, ValidationResponse(failure, body, files))]
          ELSE /\ nextId + CreatesPending <= MaxRestaurants
               /\ req' = [req EXCEPT ![q] =
                    [r EXCEPT !.pc = "genSalt",
                              !.local = [openingHours |-> JSONParse(Prop(body, "openingHours").v).val,
                                         paymentMethods |-> NormalizePaymentMethods(Prop(body, "paymentMethods")),
                                         fssaiDoc |-> Undefined, gstDoc |-> Undefined,
                                         aadharDoc |-> Undefined, newRestaurant |-> NoId,
                                         approvalStatus |-> ""]]]
  /\ UNCHANGED <<restaurants, permissions, nextId>>

\* The catch of lines 186-193.
CreateFailed(r) == Respond(r, ServerError("Something went wrong"))

\* Line 114.  The file binds no bcrypt: unless the global scope does, the
\* reference raises; bcrypt itself may raise too.  Both end in the catch.
CreateGenSalt(q) ==
  /\ req[q].op = "createRestaurant" /\ req[q].pc = "genSalt"
  /\ \E ok \in BOOLEAN :
       LET r == Logged(req[q], Ev("bcrypt.genSalt", "", NoId, ok))
       IN req' = [req EXCEPT ![q] = IF ok THEN [r EXCEPT !.pc = "hash"] ELSE CreateFailed(r)]
  /\ UNCHANGED <<restaurants, permissions, nextId>>

\* The three uploads called together, as under a Promise.all.
FirstUploads_All == requiredDocs

\* The uploads called once the password is hashed: line 118.
FirstUploads == <<requiredDocs[1]>>

\* The uploads called when the i-th upload has given its result: lines 119
\* and 120.
NextUploads(i) == IF i < Len(requiredDocs) THEN <<requiredDocs[i + 1]>> ELSE <<>>

Calls(r, docs) ==
  [r EXCEPT !.log = @ \o [i \in 1..Len(docs) |-> Ev("upload.start", docs[i], NoId, "")]]

\* Line 115, then the upload of line 118 is called.
CreateHash(q) ==
  /\ req[q].op = "createRestaurant" /\ req[q].pc = "hash"
  /\ \E ok \in BOOLEAN :
       LET r == Logged(req[q], Ev("bcrypt.hash", "", NoId, ok))
       IN req' = [req EXCEPT ![q] =
                    IF ok THEN Calls([r EXCEPT !.pc = "upload"], FirstUploads)
                    ELSE CreateFailed(r)]
  /\ UNCHANGED <<restaurants, permissions, nextId>>

\* How many of the three uploads have given their result.
UploadsDone(r) ==
  Cardinality({i \in 1..Len(requiredDocs) : r.local[requiredDocs[i]] # Undefined})

\* The test of line 122 with only the first document looked at.
UploadFailed_FirstOnly(local) == Falsy(local[requiredDocs[1]])

\* Line 122.
UploadFailed(local) ==
  \E i \in 1..Len(requiredDocs) : Falsy(local[requiredDocs[i]])

\* Lines 130-163, as far as the stored document goes.
restaurantData(r) ==
  [SchemaDefaults EXCEPT
     !.name = Str(Trim(Prop(r.body, "name").v)),
     !.kycDocuments =
        Obj([fssaiDocUrl |-> Prop(r.local.fssaiDoc, "secure_url"),
             gstDocUrl |-> Prop(r.local.gstDoc, "secure_url"),
             aadharDocUrl |-> Prop(r.local.aadharDoc, "secure_url")])]

\* Lines 118-124: the awaited upload ends.  A raise goes to the catch.  After
\* the first and the second result the next upload is called; after the
\* third a missing result raises 'Document upload failed', and otherwise
\* Restaurant.create is called (line 165).
CreateUpload(q) ==
  /\ req[q].op = "createRestaurant" /\ req[q].pc = "upload"
  /\ \E outcome \in UploadOutcomes :
       LET i == UploadsDone(req[q]) + 1
           doc == requiredDocs[i]
           r == Logged(req[q], Ev("upload.end", doc, NoId, outcome))
           got == [r EXCEPT !.local[doc] = UploadResult(FirstFile(r.files, doc).v.path, outcome)]
       IN req' = [req EXCEPT ![q] =
            IF outcome = "throw" THEN CreateFailed(r)
            ELSE IF i < Len(requiredDocs) THEN Calls(got, NextUploads(i))
            ELSE IF UploadFailed(got.local) THEN CreateFailed(got)
            ELSE [got EXCEPT !.pc = "Restaurant.create"]]
  /\ UNCHANGED <<restaurants, permissions, nextId>>

\* Line 165, then Permission.create is called (line 166).
CreateRestaurantDoc(q) ==
  /\ req[q].op = "createRestaurant" /\ req[q].pc = "Restaurant.create"
  /\ \/ /\ restaurants' = Put(restaurants, Oid(nextId), restaurantData(req[q]))
        /\ nextId' = nextId + 1
        /\ req' = [req EXCEPT ![q] =
                     [Logged(@, Ev("Restaurant.create", "", Oid(nextId), "created"))
                        EXCEPT !.pc = "Permission.create",
                               !.local.newRestaurant = Oid(nextId),
                               !.local.approvalStatus = restaurantData(req[q]).approvalStatus]]
     \/ /\ req' = [req EXCEPT ![q] =
                     CreateFailed(Logged(@, Ev("Restaurant.create", "", NoId, "throw")))]
        /\ UNCHANGED <<restaurants, nextId>>
  /\ UNCHANGED permissions

\* The record of lines 166-175.
NewPermission(id) == [restaurantId |-> id, permissions |-> DefaultPermissions]

\* A create that undoes the Restaurant record when Permission.create raises.
CreatePermission_Rollback(q) ==
  /\ req[q].op = "createRestaurant" /\ req[q].pc = "Permission.create"
  /\ LET r == req[q]
         id == r.local.newRestaurant
     IN \/ /\ permissions' = Append(permissions, NewPermission(id))
           /\ req' = [req EXCEPT ![q] =
                        Respond(Logged(r, Ev("Permission.create", "", id, NewPermission(id))),
                                Resp(201, "RESTAURANT_CREATED", "",
                                     [restaurantId |-> id,
                                      approvalStatus |-> r.local.approvalStatus]))]
           /\ UNCHANGED restaurants
        \/ /\ req' = [req EXCEPT ![q] =
                        CreateFailed(Logged(r, Ev("Permission.create", "", id, "throw")))]
           /\ restaurants' = Remove(restaurants, id)
           /\ UNCHANGED permissions
  /\ UNCHANGED nextId

\* Lines 166-184.
CreatePermission(q) ==
  /\ req[q].op = "createRestaurant" /\ req[q].pc = "Permission.create"
  /\ LET r == req[q]
         id == r.local.newRestaurant
     IN \/ /\ permissions' = Append(permissions, NewPermission(id))
           /\ req' = [req EXCEPT ![q] =
                        Respond(Logged(r, Ev("Permission.create", "", id, NewPermission(id))),
                                Resp(201, "RESTAURANT_CREATED", "",
                                     [restaurantId |-> id,
                                      approvalStatus |-> r.local.approvalStatus]))]
        \/ /\ req' = [req EXCEPT ![q] =
                        CreateFailed(Logged(r, Ev("Permission.create", "", id, "throw")))]
           /\ UNCHANGED permissions
  /\ UNCHANGED <<restaurants, nextId>>

CreateSteps(q) ==
  \/ CreateGenSalt(q)
  \/ CreateHash(q)
  \/ CreateUpload(q)
  \/ CreateRestaurantDoc(q)
  \/ CreatePermission(q)

----------------------------------------------------------------------------
(* Loading and saving a document *)

\* mongoose.Types.ObjectId.isValid
IsValid(id) == id[1] = "oid"

\* Model.findById: a string that is no ObjectId cannot be cast and the query
\* raises a CastError; the store may fail; otherwise the document or null.
FindOutcomes(id) ==
  IF ~IsValid(id) THEN {"throw"}
  ELSE IF Exists(id) THEN {"found", "throw"}
  ELSE {"null", "throw"}

\* The request once its findById has ended.
Found(q, found) == Logged(req[q], Ev("findById", "", req[q].id, found))

\* document.save() writes the assigned paths of the loaded document.  An
\* assigned array makes the write conditional on the document's version and
\* bumps the version; a write that finds no document, or not the version it
\* loaded, raises.  The version is kept as the flag stale of the requests
\* that loaded the document before a versioned write to it.
SaveOutcomes(q, versioned) ==
  IF Exists(req[q].id) /\ ~(versioned /\ req[q].stale) THEN {"saved", "throw"} ELSE {"throw"}

Merge(doc, changes) ==
  [k \in DOMAIN doc |-> IF k \in DOMAIN changes THEN changes[k] ELSE doc[k]]

\* The requests after a save of q: q continues as r, and a versioned save
\* makes stale every other request holding the document.
AfterSave(q, r, versioned) ==
  [p \in Reqs |->
     IF p = q THEN r
     ELSE IF versioned /\ req[p].id = req[q].id /\ req[p].pc \in {"uploads", "save"}
       THEN [req[p] EXCEPT !.stale = TRUE]
     ELSE req[p]]

\* Promise.all over the uploads of a file list: how each upload ends.
UploadRuns(files) == [1..Len(files) -> UploadOutcomes]

\* Lines 254-256 and 405-407: the URLs of the uploads that gave a result.
SecureUrls(files, run) ==
  LET uploads == [i \in 1..Len(files) |-> UploadResult(files[i].v.path, run[i])]
      kept == SelectSeq(uploads, LAMBDA result : ~Falsy(result) /\ ~Falsy(Prop(result, "secure_url")))
  IN Map(kept, LAMBDA result : result.v.secure_url)

\* req.files && req.files.length > 0
HasFiles(files) == files.t = "array" /\ Len(files.v) > 0

Start(op, id, body, files) ==
  [Idle EXCEPT !.op = op, !.id = id, !.body = body, !.files = files]

----------------------------------------------------------------------------
(* updateRestaurant *)

UpdateStart(q, id, body, files) ==
  /\ req[q].pc = "idle"
  /\ req' = [req EXCEPT ![q] =
       IF Falsy(body)
         THEN Respond(Start("updateRestaurant", id, body, files),
                      Resp(400, "", "Request body is missing.", <<>>))
         ELSE [Start("updateRestaurant", id, body, files) EXCEPT !.pc = "findById"]]
  /\ UNCHANGED <<restaurants, permissions, nextId>>

\* Lines 206-262: the document is loaded and the fields of the body assigned.
UpdateFind(q) ==
  /\ req[q].op = "updateRestaurant" /\ req[q].pc = "findById"
  /\ \E found \in FindOutcomes(req[q].id) :
       LET r == Found(q, found)
           assigned == IF Falsy(Prop(r.body, "name")) THEN <<>>
                       ELSE [name |-> Prop(r.body, "name")]
       IN req' = [req EXCEPT ![q] =
            CASE found = "throw" -> Respond(r, ServerError("Server error."))
              [] found = "null" -> Respond(r, Resp(404, "", "Restaurant not found.", <<>>))
              [] found = "found" ->
                   [r EXCEPT !.local = assigned,
                             !.pc = IF HasFiles(r.files) THEN "uploads" ELSE "save"]]
  /\ UNCHANGED <<restaurants, permissions, nextId>>

\* Lines 250-260: the images are replaced by the uploaded ones.
UpdateUploads(q) ==
  /\ req[q].op = "updateRestaurant" /\ req[q].pc = "uploads"
  /\ \E run \in UploadRuns(req[q].files.v) :
       LET r == Logged(req[q], Ev("uploads", "", req[q].id, run))
       IN req' = [req EXCEPT ![q] =
            IF \E i \in DOMAIN run : run[i] = "throw"
              THEN Respond(r, ServerError("Server error."))
              ELSE [r EXCEPT !.pc = "save",
                             !.local = [k \in DOMAIN r.local \cup {"images"} |->
                                          IF k = "images" THEN Arr(SecureUrls(r.files.v, run))
                                          ELSE r.local[k]]]]
  /\ UNCHANGED <<restaurants, permissions, nextId>>

UpdateSave(q) ==
  /\ req[q].op = "updateRestaurant" /\ req[q].pc = "save"
  /\ LET r == req[q]
         versioned == "images" \in DOMAIN r.local
     IN \E saved \in SaveOutcomes(q, versioned) :
          IF saved = "saved"
            THEN /\ restaurants' = Put(restaurants, r.id, Merge(restaurants[r.id], r.local))
                 /\ req' = AfterSave(q, Respond([r EXCEPT !.log = Append(@, Ev("save", "", r.id, "saved"))],
                                                Resp(200, "", "Restaurant updated successfully.", <<>>)),
                                     versioned)
            ELSE /\ req' = [req EXCEPT ![q] = Respond(Logged(r, Ev("save", "", r.id, "throw")), ServerError("Server error."))]
                 /\ UNCHANGED restaurants
  /\ UNCHANGED <<permissions, nextId>>

UpdateSteps(q) == UpdateFind(q) \/ UpdateUploads(q) \/ UpdateSave(q)

----------------------------------------------------------------------------
(* deleteRestaurant *)

DeleteStart(q, id) ==
  /\ req[q].pc = "idle"
  /\ req' = [req EXCEPT ![q] =
       IF ~IsValid(id)
         THEN Respond(Start("deleteRestaurant", id, Undefined, Undefined),
                      Resp(400, "", "Invalid restaurantId format.", <<>>))
         ELSE [Start("deleteRestaurant", id, Undefined, Undefined) EXCEPT !.pc = "findById"]]
  /\ UNCHANGED <<restaurants, permissions, nextId>>

DeleteFind(q) ==
  /\ req[q].op = "deleteRestaurant" /\ req[q].pc = "findById"
  /\ \E found \in FindOutcomes(req[q].id) :
       req' = [req EXCEPT ![q] =
         CASE found = "throw" -> Respond(Found(q, found), ServerError("Server error."))
           [] found = "null" -> Respond(Found(q, found), Resp(404, "", "Restaurant not found.", <<>>))
           [] found = "found" -> [Found(q, found) EXCEPT !.pc = "restaurant.deleteOne"]]
  /\ UNCHANGED <<restaurants, permissions, nextId>>

\* Line 294.
DeleteRestaurantDoc(q) ==
  /\ req[q].op = "deleteRestaurant" /\ req[q].pc = "restaurant.deleteOne"
  /\ \/ /\ restaurants' = Remove(restaurants, req[q].id)
        /\ req' = [req EXCEPT ![q] =
                     [@ EXCEPT !.pc = "Permission.deleteOne",
                               !.log = Append(@, Ev("restaurant.deleteOne", "", req[q].id, "deleted"))]]
     \/ /\ req' = [req EXCEPT ![q] =
                     Respond(Logged(@, Ev("restaurant.deleteOne", "", req[q].id, "throw")),
                             ServerError("Server error."))]
        /\ UNCHANGED restaurants
  /\ UNCHANGED <<permissions, nextId>>

\* Lines 297-299.
DeletePermission(q) ==
  /\ req[q].op = "deleteRestaurant" /\ req[q].pc = "Permission.deleteOne"
  /\ LET r == req[q]
     IN \/ /\ permissions' = DeleteOnePermission(permissions, r.id)
           /\ req' = [req EXCEPT ![q] =
                        Respond(Logged(r, Ev("Permission.deleteOne", "", r.id, "deleted")),
                                Resp(200, "", "Restaurant and its permissions deleted successfully.", <<>>))]
        \/ /\ req' = [req EXCEPT ![q] =
                        Respond(Logged(r, Ev("Permission.deleteOne", "", r.id, "throw")),
                                ServerError("Server error."))]
           /\ UNCHANGED permissions
  /\ UNCHANGED <<restaurants, nextId>>

DeleteSteps(q) == DeleteFind(q) \/ DeleteRestaurantDoc(q) \/ DeletePermission(q)

----------------------------------------------------------------------------
(* getRestaurantById *)

GetByIdStart(q, id) ==
  /\ req[q].pc = "idle"
  /\ req' = [req EXCEPT ![q] =
       IF ~IsValid(id)
         THEN Respond(Start("getRestaurantById", id, Undefined, Undefined),
                      Resp(400, "", "Invalid restaurantId format.", <<>>))
         ELSE [Start("getRestaurantById", id, Undefined, Undefined) EXCEPT !.pc = "findOne"]]
  /\ UNCHANGED <<restaurants, permissions, nextId>>

GetByIdFind(q) ==
  /\ req[q].op = "getRestaurantById" /\ req[q].pc = "findOne"
  /\ \E found \in FindOutcomes(req[q].id) :
       req' = [req EXCEPT ![q] =
         CASE found = "throw" -> Respond(Found(q, found), ServerError("Server error."))
           [] found = "null" -> Respond(Found(q, found), Resp(404, "", "Restaurant not found.", <<>>))
           [] found = "found" ->
                Respond(Found(q, found), Resp(200, "", "Restaurant fetched successfully.", restaurants[@.id]))]
  /\ UNCHANGED <<restaurants, permissions, nextId>>

----------------------------------------------------------------------------
(* updateBusinessHours *)

validDays ==
  {"monday", "tuesday", "wednesday", "thursday", "friday", "saturday", "sunday"}

\* An hour pattern that lets any two digits through.
HourMatches_AnyTwoDigits(h) ==
  /\ Len(h) \in {1, 2}
  /\ \A i \in DOMAIN h : h[i] \in Digits

\* /^([01]?[0-9]|2[0-3]):[0-5][0-9]$/ on a string.
HourMatches(h) ==
  \/ Len(h) = 1 /\ h[1] \in Digits
  \/ Len(h) = 2 /\ h[1] \in {"0", "1"} /\ h[2] \in Digits
  \/ Len(h) = 2 /\ h[1] = "2" /\ h[2] \in {"0", "1", "2", "3"}

timeRegexTest(s) ==
  /\ Len(s) >= 4
  /\ HourMatches(SubSeq(s, 1, Len(s) - 3))
  /\ s[Len(s) - 2] = ":"
  /\ s[Len(s) - 1] \in {"0", "1", "2", "3", "4", "5"}
  /\ s[Len(s)] \in Digits

\* One pass of the loop of lines 350-366 over Object.entries(businessHours),
\* a sequence of <<day, times>>: "" when every entry passes, and the message
\* of the first entry that does not.
RECURSIVE HoursFailure(_)
HoursFailure(entries) ==
  IF entries = <<>> THEN ""
  ELSE LET day == Head(entries)[1]
           times == Head(entries)[2]
           startTime == Prop(times, "startTime")
           endTime == Prop(times, "endTime")
           closed == Prop(times, "closed")
       IN IF day \notin validDays THEN "Invalid day"
          ELSE IF closed = Bool(TRUE) THEN HoursFailure(Tail(entries))
          ELSE IF Falsy(startTime) \/ Falsy(endTime) THEN "Missing startTime or endTime"
          ELSE IF ~timeRegexTest(startTime.v) \/ ~timeRegexTest(endTime.v)
            THEN "Invalid time format"
          ELSE HoursFailure(Tail(entries))

\* An object whose keys keep their order is [t |-> "object", v |-> entries].
Entries(businessHours) == businessHours.v

HoursStart(q, id, body) ==
  /\ req[q].pc = "idle"
  /\ LET r == Start("updateBusinessHours", id, body, Undefined)
         businessHours == Prop(body, "businessHours")
     IN req' = [req EXCEPT ![q] =
          IF ~IsValid(id)
            THEN Respond(r, Resp(400, "", "Invalid or missing restaurantId.", <<>>))
          ELSE IF Falsy(businessHours) \/ businessHours.t # "object"
            THEN Respond(r, Resp(400, "", "businessHours must be a valid object.", <<>>))
          ELSE IF HoursFailure(Entries(businessHours)) # ""
            THEN Respond(r, Resp(400, "", HoursFailure(Entries(businessHours)), <<>>))
          ELSE [r EXCEPT !.pc = "findById"]]
  /\ UNCHANGED <<restaurants, permissions, nextId>>

HoursFind(q) ==
  /\ req[q].op = "updateBusinessHours" /\ req[q].pc = "findById"
  /\ \E found \in FindOutcomes(req[q].id) :
       req' = [req EXCEPT ![q] =
         CASE found = "throw" -> Respond(Found(q, found), ServerError("Server error."))
           [] found = "null" -> Respond(Found(q, found), Resp(404, "", "Restaurant not found.", <<>>))
           [] found = "found" ->
                [Found(q, found) EXCEPT !.pc = "save",
                          !.local = [businessHours |-> Prop(req[q].body, "businessHours")]]]
  /\ UNCHANGED <<restaurants, permissions, nextId>>

\* Lines 373-379.
HoursSave(q) ==
  /\ req[q].op = "updateBusinessHours" /\ req[q].pc = "save"
  /\ LET r == req[q]
     IN \E saved \in SaveOutcomes(q, FALSE) :
          IF saved = "saved"
            THEN /\ restaurants' = Put(restaurants, r.id, Merge(restaurants[r.id], r.local))
                 /\ req' = AfterSave(q, Respond([r EXCEPT !.log = Append(@, Ev("save", "", r.id, "saved"))],
                                                Resp(200, "", "Business hours updated successfully.",
                                                     r.local.businessHours)),
                                     FALSE)
            ELSE /\ req' = [req EXCEPT ![q] = Respond(Logged(r, Ev("save", "", r.id, "throw")), ServerError("Server error."))]
                 /\ UNCHANGED restaurants
  /\ UNCHANGED <<permissions, nextId>>

HoursSteps(q) == HoursFind(q) \/ HoursSave(q)

----------------------------------------------------------------------------
(* addKyc and getKyc *)

\* The documents the addKyc requests in flight on id may still append.
KycPending(id) ==
  LET Count(r) == IF req[r].op = "addKyc" /\ InFlight(r) /\ req[r].id = id /\ HasFiles(req[r].files)
                    THEN Len(req[r].files.v) ELSE 0
      RECURSIVE Sum(_)
      Sum(S) == IF S = {} THEN 0 ELSE LET r == CHOOSE x \in S : TRUE IN Count(r) + Sum(S \ {r})
  IN Sum(Reqs)

KycStored(id) ==
  IF Exists(id) /\ restaurants[id].kycDocuments.t = "array"
    THEN Len(restaurants[id].kycDocuments.v) ELSE 0

AddKycStart(q, id, files) ==
  /\ req[q].pc = "idle"
  /\ KycStored(id) + KycPending(id) + (IF HasFiles(files) THEN Len(files.v) ELSE 0) <= MaxKycDocs
  /\ req' = [req EXCEPT ![q] = [Start("addKyc", id, Undefined, files) EXCEPT !.pc = "findById"]]
  /\ UNCHANGED <<restaurants, permissions, nextId>>

\* Lines 392-402: the document is loaded; with files the uploads are awaited,
\* without them lines 410-414 follow at once.
\* [...restaurant.kycDocuments] raises a TypeError unless the stored value is
\* an array.
AddKycFind(q) ==
  /\ req[q].op = "addKyc" /\ req[q].pc = "findById"
  /\ \E found \in FindOutcomes(req[q].id) :
       LET r == Found(q, found)
           loaded == [r EXCEPT !.local = [kycDocuments |-> restaurants[r.id].kycDocuments,
                                          kycStatus |-> restaurants[r.id].kycStatus]]
       IN req' = [req EXCEPT ![q] =
            CASE found = "throw" -> Respond(r, ServerError("Server error while uploading KYC."))
              [] found = "null" -> Respond(r, Resp(404, "", "Restaurant not found.", <<>>))
              [] found = "found" ->
                   IF HasFiles(r.files) THEN [loaded EXCEPT !.pc = "uploads"]
                   ELSE IF loaded.local.kycDocuments.t # "array"
                     THEN Respond(loaded, ServerError("Server error while uploading KYC."))
                   ELSE [loaded EXCEPT !.pc = "save", !.local.kycStatus = "pending"]]
  /\ UNCHANGED <<restaurants, permissions, nextId>>

\* Lines 400-412.
AddKycUploads(q) ==
  /\ req[q].op = "addKyc" /\ req[q].pc = "uploads"
  /\ \E run \in UploadRuns(req[q].files.v) :
       LET r == Logged(req[q], Ev("uploads", "", req[q].id, run))
           kycUrls == SecureUrls(r.files.v, run)
       IN req' = [req EXCEPT ![q] =
            IF \E i \in DOMAIN run : run[i] = "throw"
              THEN Respond(r, ServerError("Server error while uploading KYC."))
            ELSE IF r.local.kycDocuments.t # "array"
              THEN Respond(r, ServerError("Server error while uploading KYC."))
            ELSE [r EXCEPT !.pc = "save",
                           !.local.kycDocuments = Arr(@.v \o kycUrls),
                           !.local.kycStatus = "pending"]]
  /\ UNCHANGED <<restaurants, permissions, nextId>>

\* Line 410 assigns the loaded documents followed by kycUrls: with no URL to
\* append the assigned array equals the loaded one.
KycModified(r) ==
  \E i \in DOMAIN r.log :
    r.log[i].e = "uploads" /\ SecureUrls(r.files.v, r.log[i].data) # <<>>

\* The paths save() writes.  An assigned array that differs from the loaded
\* one is written under the version check; one that equals it is either
\* written so too or taken as unmodified and left out of the write.
KycWrites(r) ==
  IF KycModified(r) THEN {r.local}
  ELSE {r.local, [kycStatus |-> r.local.kycStatus]}

\* A save that lets a stale addKyc write its array over the stored one.
AddKycSave_Unversioned(q) ==
  /\ req[q].op = "addKyc" /\ req[q].pc = "save"
  /\ LET r == req[q]
     IN \E saved \in SaveOutcomes(q, FALSE) :
          IF saved = "saved"
            THEN /\ restaurants' = Put(restaurants, r.id, Merge(restaurants[r.id], r.local))
                 /\ req' = AfterSave(q, Respond([r EXCEPT !.log = Append(@, Ev("save", "", r.id, "saved"))],
                                                Resp(200, "", "KYC documents uploaded successfully.",
                                                     r.local)),
                                     FALSE)
            ELSE /\ req' = [req EXCEPT ![q] =
                              Respond(Logged(r, Ev("save", "", r.id, "throw")), ServerError("Server error while uploading KYC."))]
                 /\ UNCHANGED restaurants
  /\ UNCHANGED <<permissions, nextId>>

\* Lines 414-419.
AddKycSave(q) ==
  /\ req[q].op = "addKyc" /\ req[q].pc = "save"
  /\ LET r == req[q]
     IN \E writes \in KycWrites(r) :
        LET versioned == "kycDocuments" \in DOMAIN writes
        IN \E saved \in SaveOutcomes(q, versioned) :
          IF saved = "saved"
            THEN /\ restaurants' = Put(restaurants, r.id, Merge(restaurants[r.id], writes))
                 /\ req' = AfterSave(q, Respond([r EXCEPT !.log = Append(@, Ev("save", "", r.id, "saved"))],
                                                Resp(200, "", "KYC documents uploaded successfully.",
                                                     r.local)),
                                     versioned)
            ELSE /\ req' = [req EXCEPT ![q] =
                              Respond(Logged(r, Ev("save", "", r.id, "throw")), ServerError("Server error while uploading KYC."))]
                 /\ UNCHANGED restaurants
  /\ UNCHANGED <<permissions, nextId>>

AddKycSteps(q) == AddKycFind(q) \/ AddKycUploads(q) \/ AddKycSave(q)

GetKycStart(q, id) ==
  /\ req[q].pc = "idle"
  /\ req' = [req EXCEPT ![q] = [Start("getKyc", id, Undefined, Undefined) EXCEPT !.pc = "findById"]]
  /\ UNCHANGED <<restaurants, permissions, nextId>>

GetKycFind(q) ==
  /\ req[q].op = "getKyc" /\ req[q].pc = "findById"
  /\ \E found \in FindOutcomes(req[q].id) :
       req' = [req EXCEPT ![q] =
         CASE found = "throw" -> Respond(Found(q, found), ServerError("Server error while fetching KYC."))
           [] found = "null" -> Respond(Found(q, found), Resp(404, "", "Restaurant not found.", <<>>))
           [] found = "found" ->
                Respond(Found(q, found), Resp(200, "", "KYC details fetched successfully.",
                                [kycDocuments |-> restaurants[@.id].kycDocuments,
                                 kycStatus |-> restaurants[@.id].kycStatus]))]
  /\ UNCHANGED <<restaurants, permissions, nextId>>

----------------------------------------------------------------------------
(* addServiceArea *)

T_Polygon == <<"P", "o", "l", "y", "g", "o", "n">>
T_Point == <<"P", "o", "i", "n", "t">>

\* The test on one element without the look at its coordinates.
InvalidArea_TypeOnly(area) ==
  \/ Falsy(Prop(area, "type"))
  \/ Prop(area, "type") # Str(T_Polygon)

\* The test of lines 478-483 on one element.
InvalidArea(area) ==
  \/ Falsy(Prop(area, "type"))
  \/ Prop(area, "type") # Str(T_Polygon)
  \/ Prop(area, "coordinates").t # "array"
  \/ Len(Prop(area, "coordinates").v) = 0

AreaStart(q, id, body) ==
  /\ req[q].pc = "idle"
  /\ LET r == Start("addServiceArea", id, body, Undefined)
         serviceAreas == Prop(body, "serviceAreas")
     IN req' = [req EXCEPT ![q] =
          IF ~IsValid(id)
            THEN Respond(r, Resp(400, "", "Invalid restaurant ID", <<>>))
          ELSE IF serviceAreas.t # "array" \/ Len(serviceAreas.v) = 0
            THEN Respond(r, Resp(400, "", "serviceAreas must be a non-empty array of GeoJSON Polygons", <<>>))
          ELSE IF \E i \in DOMAIN serviceAreas.v : InvalidArea(serviceAreas.v[i])
            THEN Respond(r, Resp(400, "", "Each serviceArea must be a valid GeoJSON Polygon with coordinates", <<>>))
          ELSE [r EXCEPT !.pc = "findById"]]
  /\ UNCHANGED <<restaurants, permissions, nextId>>

AreaFind(q) ==
  /\ req[q].op = "addServiceArea" /\ req[q].pc = "findById"
  /\ \E found \in FindOutcomes(req[q].id) :
       req' = [req EXCEPT ![q] =
         CASE found = "throw" -> Respond(Found(q, found), ServerError("Server error"))
           [] found = "null" -> Respond(Found(q, found), Resp(404, "", "Restaurant not found", <<>>))
           [] found = "found" ->
                [Found(q, found) EXCEPT !.pc = "save",
                          !.local = [serviceAreas |-> Prop(req[q].body, "serviceAreas")]]]
  /\ UNCHANGED <<restaurants, permissions, nextId>>

\* Lines 502-509.
AreaSave(q) ==
  /\ req[q].op = "addServiceArea" /\ req[q].pc = "save"
  /\ LET r == req[q]
     IN \E saved \in SaveOutcomes(q, TRUE) :
          IF saved = "saved"
            THEN /\ restaurants' = Put(restaurants, r.id, Merge(restaurants[r.id], r.local))
                 /\ req' = AfterSave(q, Respond([r EXCEPT !.log = Append(@, Ev("save", "", r.id, "saved"))],
                                                Resp(200, "", "Service areas updated successfully",
                                                     r.local.serviceAreas)),
                                     TRUE)
            ELSE /\ req' = [req EXCEPT ![q] = Respond(Logged(r, Ev("save", "", r.id, "throw")), ServerError("Server error"))]
                 /\ UNCHANGED restaurants
  /\ UNCHANGED <<permissions, nextId>>

AreaSteps(q) == AreaFind(q) \/ AreaSave(q)

----------------------------------------------------------------------------
(* getRestaurantMenu *)

MenuStart(q, id) ==
  /\ req[q].pc = "idle"
  /\ req' = [req EXCEPT ![q] =
       IF ~IsValid(id)
         THEN Respond(Start("getRestaurantMenu", id, Undefined, Undefined),
                      Resp(400, "", "Invalid restaurantId format", <<>>))
         ELSE [Start("getRestaurantMenu", id, Undefined, Undefined) EXCEPT !.pc = "Category.find"]]
  /\ UNCHANGED <<restaurants, permissions, nextId>>

\* Lines 534-561.  The categories and products are other collections: the
\* query gives some list of the restaurant's active categories, or raises.
CategoryLists == {<<>>, <<"starters">>, <<"starters", "mains">>}

MenuCategories(q) ==
  /\ req[q].op = "getRestaurantMenu" /\ req[q].pc = "Category.find"
  /\ \/ \E categories \in CategoryLists :
          req' = [req EXCEPT ![q] =
            IF Len(categories) = 0
              THEN Respond(@, Resp(404, "", "No categories found for this restaurant.", <<>>))
              ELSE [@ EXCEPT !.pc = "Product.find", !.local = [categories |-> categories]]]
     \/ req' = [req EXCEPT ![q] = Respond(@, ServerError("Failed to fetch restaurant menu"))]
  /\ UNCHANGED <<restaurants, permissions, nextId>>

\* Lines 545-567: Promise.all over one Product.find per category.
MenuProducts(q) ==
  /\ req[q].op = "getRestaurantMenu" /\ req[q].pc = "Product.find"
  /\ \E ok \in BOOLEAN :
       req' = [req EXCEPT ![q] =
         IF ok THEN Respond(@, Resp(200, "", "Menu fetched successfully", @.local.categories))
         ELSE Respond(@, ServerError("Failed to fetch restaurant menu"))]
  /\ UNCHANGED <<restaurants, permissions, nextId>>

MenuSteps(q) == MenuCategories(q) \/ MenuProducts(q)

----------------------------------------------------------------------------
(* Request inputs *)

Without(o, f) == [k \in DOMAIN o \ {f} |-> o[k]]

File(path) == Obj([path |-> path])

AllFiles ==
  Obj([fssaiDoc |-> Arr(<<File("fssai.pdf")>>), gstDoc |-> Arr(<<File("gst.pdf")>>),
       aadharDoc |-> Arr(<<File("aadhar.pdf")>>)])

\* The attachments of a create request: all three, one left out, one field
\* with an empty list, none at all.
CreateFiles ==
  {AllFiles, Obj(Without(AllFiles.v, "gstDoc")),
   Obj([AllFiles.v EXCEPT !.aadharDoc = Arr(<<>>)]), Undefined}

ValidBody ==
  [name |-> Str(<<" ", "C", "a", "f", "e">>), ownerName |-> Str(<<"O">>),
   phone |-> Str(<<"9">>), email |-> Str(<<"e">>), password |-> Str(Chars(8, "x")),
   fssaiNumber |-> Str(<<"1">>), gstNumber |-> Str(<<"2">>), aadharNumber |-> Str(<<"3">>),
   address |-> Obj([street |-> Str(<<"s">>), city |-> Str(<<"c">>), state |-> Str(<<"t">>)]),
   foodType |-> Str(<<" ">> \o T_veg \o <<" ">>),
   openingHours |-> Str(<<"[", "]">>)]

\* How a body may miss a required field: a field left out, a field sent
\* empty, the address left out, one address field left out, two at once.
IncompleteBodies ==
  {Without(ValidBody, "name"),
   [ValidBody EXCEPT !.password = Str(<<>>)],
   Without(ValidBody, "address"),
   [ValidBody EXCEPT !.address = Obj(Without(@.v, "city"))],
   Without(Without(ValidBody, "openingHours"), "phone")}

Passwords == {Str(Chars(7, "x")), Str(Chars(8, "x"))}
FoodTypes == {Str(<<" ">> \o T_veg \o <<" ">>), Str(T_nonveg), Str(<<"v", "e", "g", "a", "n">>)}
OpeningHoursTexts ==
  {Str(<<"[", "]">>), Str(<<"[", "1", ",", "2", "]">>), Str(<<"{", "}">>), Str(<<"[", "1">>)}
PaymentMethodInputs ==
  {Undefined,
   Str(T_online \o <<",", " ">> \o T_cod),
   Str(T_online \o <<",">> \o T_bogus),
   Arr(<<Str(T_wallet), Str(T_bogus)>>),
   Arr(<<Str(T_wallet)>>)}

WithPaymentMethods(b, pm) ==
  IF pm = Undefined THEN b
  ELSE [k \in DOMAIN b \cup {"paymentMethods"} |-> IF k = "paymentMethods" THEN pm ELSE b[k]]

\* Every combination of the above on a complete body, and on each incomplete
\* body too where the field is still there.
CreateBodies ==
  {Obj(WithPaymentMethods(
         [k \in DOMAIN b |->
            IF k = "password" /\ b[k] # Str(<<>>) THEN pw
            ELSE IF k = "foodType" THEN ft
            ELSE IF k = "openingHours" THEN oh
            ELSE b[k]], pm)) :
     b \in {ValidBody} \cup IncompleteBodies, pw \in Passwords, ft \in FoodTypes,
     oh \in OpeningHoursTexts, pm \in PaymentMethodInputs}

\* The few bodies the concurrent specifications send.
SampleBodies ==
  {Obj(ValidBody), Obj([ValidBody EXCEPT !.password = Str(Chars(7, "x"))])}

SampleFiles == {AllFiles, Obj(Without(AllFiles.v, "gstDoc"))}

----------------------------------------------------------------------------
(* The state machine *)

\* The collections as earlier runs left them: empty, or one restaurant with
\* its Permission record.
SeedRestaurant == [SchemaDefaults EXCEPT !.name = Str(<<"S">>)]

Init ==
  /\ \E seeded \in BOOLEAN :
       IF seeded
         THEN /\ restaurants = Put(<<>>, Oid(1), SeedRestaurant)
              /\ permissions = <<[restaurantId |-> Oid(1), permissions |-> DefaultPermissions]>>
              /\ nextId = 2
         ELSE /\ restaurants = <<>>
              /\ permissions = <<>>
              /\ nextId = 1
  /\ req = [q \in Reqs |-> Idle]

\* The response has been sent: the slot serves the next request.
Retire(q) ==
  /\ req[q].pc = "done"
  /\ req' = [req EXCEPT ![q] = Idle]
  /\ UNCHANGED <<restaurants, permissions, nextId>>

\* The restaurantId a request names: an ObjectId the store may hold, or a
\* string that is none.
IdParams == {Oid(n) : n \in 1..MaxRestaurants} \cup {MalformedId}

T(h1, h2, m1, m2) == Str(<<h1, h2, ":", m1, m2>>)

Hours(entries) == Obj([businessHours |-> [t |-> "object", v |-> entries]])

Closed == Obj([closed |-> Bool(TRUE)])
Open(startTime, endTime) == Obj([startTime |-> startTime, endTime |-> endTime])

\* The bodies of updateBusinessHours: schedules that pass, and schedules that
\* fail each test of the loop, alone or after an entry that passes; no
\* businessHours, and one that is no object.
HoursBodies ==
  {Hours(<< <<"monday", Closed>> >>),
   Hours(<< <<"monday", Open(T("0", "9", "0", "0"), T("1", "7", "3", "0"))>>,
            <<"sunday", Closed>> >>),
   Hours(<< <<"monday", Open(Str(<<"9", ":", "3", "0">>), T("2", "3", "5", "9"))>> >>),
   Hours(<<>>),
   Hours(<< <<"monday", Open(T("2", "5", "0", "0"), T("1", "0", "0", "0"))>> >>),
   Hours(<< <<"monday", Open(T("1", "0", "0", "0"), T("2", "4", "0", "0"))>> >>),
   Hours(<< <<"tuesday", Closed>>,
            <<"monday", Open(T("1", "0", "6", "0"), T("1", "1", "0", "0"))>> >>),
   Hours(<< <<"monday", Obj([startTime |-> T("0", "9", "0", "0")])>> >>),
   Hours(<< <<"monday", Obj([closed |-> Bool(FALSE)])>> >>),
   Hours(<< <<"funday", Closed>> >>),
   Hours(<< <<"monday", Open(Str(<<"0", "9", "0", "0">>), Str(<<"1", "7", ":", "0", "0", "h">>))>> >>),
   Obj([businessHours |-> Str(<<"9", "-", "5">>)]),
   Obj(<<>>)}

Polygon(c) == Obj([type |-> Str(T_Polygon), coordinates |-> Arr(c)])
Ring1 == << <<0, 0>>, <<0, 1>>, <<1, 1>>, <<0, 0>> >>
Ring2 == << <<2, 2>>, <<2, 3>>, <<3, 3>>, <<2, 2>> >>
Ring3 == << <<4, 4>>, <<4, 5>>, <<5, 5>>, <<4, 4>> >>

Areas(list) == Obj([serviceAreas |-> list])

\* The bodies of addServiceArea: lists that pass, and lists that fail each
\* test, alone or after an element that passes; no list, and no array.
AreaBodies ==
  {Areas(Arr(<<Polygon(<<Ring1>>)>>)),
   Areas(Arr(<<Polygon(<<Ring2>>), Polygon(<<Ring3>>)>>)),
   Areas(Arr(<<>>)),
   Areas(Polygon(<<Ring1>>)),
   Obj(<<>>),
   Areas(Arr(<<Obj([type |-> Str(T_Point), coordinates |-> Arr(<<0, 0>>)])>>)),
   Areas(Arr(<<Obj([type |-> Str(T_Polygon)])>>)),
   Areas(Arr(<<Polygon(<<Ring1>>), Polygon(<<>>)>>)),
   Areas(Arr(<<Obj([coordinates |-> Arr(<<Ring1>>)])>>)),
   Areas(Arr(<<Obj([type |-> Str(T_Polygon), coordinates |-> Str(<<"0">>)])>>))}

\* The attachments of addKyc and updateRestaurant: none, one file, two.
FileLists ==
  {Undefined, Arr(<<>>), Arr(<<File("a.pdf")>>), Arr(<<File("a.pdf"), File("b.pdf")>>)}

UpdateBodies == {Undefined, Obj(<<>>), Obj([name |-> Str(<<"N">>)])}

\* Onboarding alone, one request at a time, over every body and attachment.
NextOnboarding ==
  \/ \E body \in CreateBodies, files \in CreateFiles : CreateStart("q1", body, files)
  \/ CreateSteps("q1")
  \/ Retire("q1")

SpecOnboarding == Init /\ [][NextOnboarding]_vars

\* Creation and deletion, interleaved.
Next ==
  \E q \in Reqs :
    \/ \E body \in SampleBodies, files \in SampleFiles : CreateStart(q, body, files)
    \/ CreateSteps(q)
    \/ \E id \in IdParams : DeleteStart(q, id)
    \/ DeleteSteps(q)
    \/ Retire(q)

Spec == Init /\ [][Next]_vars

\* Every operation that takes a restaurantId, one request at a time.
NextById ==
  \/ \E id \in IdParams, body \in UpdateBodies, files \in FileLists :
       UpdateStart("q1", id, body, files)
  \/ UpdateSteps("q1")
  \/ \E id \in IdParams : DeleteStart("q1", id)
  \/ DeleteSteps("q1")
  \/ \E id \in IdParams : GetByIdStart("q1", id)
  \/ GetByIdFind("q1")
  \/ \E id \in IdParams, body \in HoursBodies : HoursStart("q1", id, body)
  \/ HoursSteps("q1")
  \/ \E id \in IdParams, files \in FileLists : AddKycStart("q1", id, files)
  \/ AddKycSteps("q1")
  \/ \E id \in IdParams : GetKycStart("q1", id)
  \/ GetKycFind("q1")
  \/ \E id \in IdParams, body \in AreaBodies : AreaStart("q1", id, body)
  \/ AreaSteps("q1")
  \/ \E id \in IdParams : MenuStart("q1", id)
  \/ MenuSteps("q1")
  \/ Retire("q1")

SpecById == Init /\ [][NextById]_vars

\* updateBusinessHours, interleaved.
NextHours ==
  \E q \in Reqs :
    \/ \E id \in IdParams, body \in HoursBodies : HoursStart(q, id, body)
    \/ HoursSteps(q)
    \/ Retire(q)

SpecHours == Init /\ [][NextHours]_vars

\* addServiceArea, interleaved.
NextAreas ==
  \E q \in Reqs :
    \/ \E id \in IdParams, body \in AreaBodies : AreaStart(q, id, body)
    \/ AreaSteps(q)
    \/ Retire(q)

SpecAreas == Init /\ [][NextAreas]_vars

\* Onboarding followed by addKyc and getKyc, interleaved.
NextKyc ==
  \E q \in Reqs :
    \/ CreateStart(q, Obj(ValidBody), AllFiles)
    \/ CreateSteps(q)
    \/ \E id \in IdParams, files \in FileLists : AddKycStart(q, id, files)
    \/ AddKycSteps(q)
    \/ \E id \in IdParams : GetKycStart(q, id)
    \/ GetKycFind(q)
    \/ Retire(q)

SpecKyc == Init /\ [][NextKyc]_vars

\* Two schedules and a list of areas that pass the checks; no attachment,
\* one file, two files.
SampleHours ==
  {Hours(<< <<"monday", Closed>> >>),
   Hours(<< <<"monday", Open(T("0", "9", "0", "0"), T("1", "7", "3", "0"))>>,
            <<"sunday", Closed>> >>)}

SampleAreas == {Areas(Arr(<<Polygon(<<Ring1>>)>>))}

SampleFileLists == {Undefined, Arr(<<File("a.pdf")>>), Arr(<<File("a.pdf"), File("b.pdf")>>)}

\* addKyc, updateBusinessHours and addServiceArea, interleaved.
NextShared ==
  \E q \in Reqs :
    \/ \E id \in IdParams, files \in SampleFileLists : AddKycStart(q, id, files)
    \/ AddKycSteps(q)
    \/ \E id \in IdParams, body \in SampleHours : HoursStart(q, id, body)
    \/ HoursSteps(q)
    \/ \E id \in IdParams, body \in SampleAreas : AreaStart(q, id, body)
    \/ AreaSteps(q)
    \/ Retire(q)

SpecShared == Init /\ [][NextShared]_vars

----------------------------------------------------------------------------
(* Properties *)

EventsOf(r, e) == SelectSeq(r.log, LAMBDA ev : ev.e = e)

\* The place of the first e in the log of r, 0 when there is none.
Pos(r, e) ==
  IF \E i \in DOMAIN r.log : r.log[i].e = e
    THEN CHOOSE i \in DOMAIN r.log : r.log[i].e = e /\ \A j \in 1..(i - 1) : r.log[j].e # e
    ELSE 0

Done(q, op) == req[q].op = op /\ req[q].pc = "done"

\* In this step q sends its response, with this status.
Answers(q, op, status) ==
  /\ req[q].pc # "done"
  /\ req'[q].pc = "done"
  /\ req'[q].op = op
  /\ req'[q].resp.status = status

Quiescent == \A q \in Reqs : ~InFlight(q)

\* C1: the step in which a createRestaurant request answers 201
\* RESTAURANT_CREATED leaves exactly one Permission record for the new
\* restaurant's id, with canManageMenu and canViewReports true and the other
\* three flags false; the request has created one Permission record and no
\* more, after its Restaurant record and before its response.
C1_PermissionBootstrapped ==
  [][\A q \in Reqs :
       Answers(q, "createRestaurant", 201) =>
         LET r == req'[q]
             id == r.resp.data.restaurantId
             grant == [canManageMenu |-> TRUE, canViewReports |-> TRUE,
                       canAcceptOrder |-> FALSE, canRejectOrder |-> FALSE,
                       canManageOffers |-> FALSE]
         IN /\ r.resp.code = "RESTAURANT_CREATED"
            /\ Len(EventsOf(r, "Permission.create")) = 1
            /\ EventsOf(r, "Permission.create")[1].id = id
            /\ EventsOf(r, "Permission.create")[1].data.permissions = grant
            /\ Len(EventsOf(r, "Restaurant.create")) = 1
            /\ EventsOf(r, "Restaurant.create")[1].id = id
            /\ 0 < Pos(r, "Restaurant.create")
            /\ Pos(r, "Restaurant.create") < Pos(r, "Permission.create")
            /\ Pos(r, "Permission.create") < Pos(r, "respond")
            /\ permissions' = Append(permissions, [restaurantId |-> id, permissions |-> grant])
            /\ \A i \in DOMAIN permissions : permissions[i].restaurantId # id
    ]_vars

\* A request has answered 201 and the Permission record of its restaurant is
\* in the store.
C1_Witness ==
  \E q \in Reqs :
    /\ Done(q, "createRestaurant")
    /\ req[q].resp.status = 201
    /\ Exists(req[q].resp.data.restaurantId)
    /\ Len(PermissionsOf(req[q].resp.data.restaurantId)) = 1

\* C2: a deleteRestaurant request that answers 200 has removed the restaurant
\* and its Permission record; one that removed the restaurant but not the
\* Permission record answers with a failure; one answered 400 or 404 has
\* deleted nothing; and once no request is in flight, every Permission record
\* references a restaurant that exists.
C2_DeleteLeavesNoOrphan ==
  /\ \A q \in Reqs :
       Done(q, "deleteRestaurant") =>
         LET r == req[q]
             gone == \E i \in DOMAIN r.log :
                       r.log[i].e = "restaurant.deleteOne" /\ r.log[i].data = "deleted"
             cleared == \E i \in DOMAIN r.log :
                          r.log[i].e = "Permission.deleteOne" /\ r.log[i].data = "deleted"
         IN /\ r.resp.status = 200 => gone /\ cleared
            /\ gone /\ ~cleared => r.resp.status >= 400
            /\ r.resp.status \in {400, 404} => ~gone /\ ~cleared
  /\ Quiescent =>
       \A i \in DOMAIN permissions : Exists(permissions[i].restaurantId)

\* How the upload of a mandatory document ended for r: "" while it has not.
UploadEnd(r, doc) ==
  IF \E i \in DOMAIN r.log : r.log[i].e = "upload.end" /\ r.log[i].doc = doc
    THEN r.log[CHOOSE i \in DOMAIN r.log : r.log[i].e = "upload.end" /\ r.log[i].doc = doc].data
    ELSE ""

\* C3: a createRestaurant request one of whose three uploads gave no result
\* or raised creates no Restaurant record and no Permission record, and its
\* response, once sent, is a failure.
C3_FailedUploadCreatesNothing ==
  \A q \in Reqs :
    LET r == req[q]
    IN (r.op = "createRestaurant" /\
        \E i \in 1..Len(requiredDocs) : UploadEnd(r, requiredDocs[i]) \in {"null", "throw"}) =>
         /\ EventsOf(r, "Restaurant.create") = <<>>
         /\ EventsOf(r, "Permission.create") = <<>>
         /\ r.pc \notin {"Restaurant.create", "Permission.create"}
         /\ r.pc = "done" => r.resp.status = 500

\* A request is over whose second upload gave no result while the first and
\* the third succeeded.
C3_Witness ==
  \E q \in Reqs :
    /\ Done(q, "createRestaurant")
    /\ UploadEnd(req[q], "fssaiDoc") = "ok"
    /\ UploadEnd(req[q], "gstDoc") = "null"
    /\ UploadEnd(req[q], "aadharDoc") = "ok"
    /\ req[q].resp.status = 500

\* The upload events of a log, in order, as <<event, document>>.
UploadEvents(r) ==
  Map(SelectSeq(r.log, LAMBDA ev : ev.e \in {"upload.start", "upload.end"}),
      LAMBDA ev : <<ev.e, ev.doc>>)

\* C10 (concurrent uploads): in a createRestaurant request every upload is started
\* before any upload has completed.
C10_UploadsConcurrent ==
  \A q \in Reqs :
    LET u == UploadEvents(req[q])
    IN req[q].op = "createRestaurant" =>
         \A i, j \in DOMAIN u : u[i][1] = "upload.start" /\ u[j][1] = "upload.end" => i < j

\* C10 (sequential uploads): the uploads run one after the other, fssaiDoc, gstDoc,
\* aadharDoc, each started when the one before has completed, and the record
\* is constructed only when all three have completed.
C10_UploadsSequential ==
  \A q \in Reqs :
    LET r == req[q]
        u == UploadEvents(r)
        order == << <<"upload.start", "fssaiDoc">>, <<"upload.end", "fssaiDoc">>,
                    <<"upload.start", "gstDoc">>, <<"upload.end", "gstDoc">>,
                    <<"upload.start", "aadharDoc">>, <<"upload.end", "aadharDoc">> >>
    IN r.op = "createRestaurant" =>
         /\ Len(u) <= Len(order)
         /\ u = SubSeq(order, 1, Len(u))
         /\ (r.pc \in {"Restaurant.create", "Permission.create"}
               \/ EventsOf(r, "Restaurant.create") # <<>>) =>
              /\ u = order
              /\ \A i \in DOMAIN r.log : r.log[i].e = "upload.end" => r.log[i].data = "ok"

\* The record is about to be constructed: the three uploads have completed.
C10_Witness ==
  \E q \in Reqs :
    /\ req[q].op = "createRestaurant"
    /\ req[q].pc = "Restaurant.create"
    /\ Len(UploadEvents(req[q])) = 6

\* The six checks of createRestaurant, each taken alone.
CheckFails(i, body, files) ==
  CASE i = 1 -> missingFields(body) # <<>>
    [] i = 2 -> WeakPassword(body)
    [] i = 3 -> InvalidFoodType(body)
    [] i = 4 -> InvalidOpeningHours(body)
    [] i = 5 -> missingDocs(files) # <<>>
    [] i = 6 -> invalidMethods(body) # <<>>

FailingChecks(body, files) == {i \in 1..6 : CheckFails(i, body, files)}

\* The code and the message of the response of each check.
CheckAnswer(i) ==
  CASE i = 1 -> <<"REQUIRED_FIELD_MISSING", "Missing required fields">>
    [] i = 2 -> <<"WEAK_PASSWORD", "Password must be at least 8 characters long">>
    [] i = 3 -> <<"INVALID_FOOD_TYPE", "Invalid foodType">>
    [] i = 4 -> <<"INVALID_OPENING_HOURS", "Invalid openingHours">>
    [] i = 5 -> <<"DOCUMENT_REQUIRED", "Missing documents">>
    [] i = 6 -> <<"", "Invalid payment methods">>

\* C4: a createRestaurant request that fails one of the six checks is
\* answered 400 at once, with no upload called and nothing written to either
\* collection; a request without all three mandatory documents never calls
\* an upload.
C4_RejectedBeforeAnyEffect ==
  \A q \in Reqs :
    LET r == req[q]
    IN r.op = "createRestaurant" =>
         /\ FailingChecks(r.body, r.files) # {} =>
              /\ r.pc = "done"
              /\ r.resp.status = 400
              /\ Len(r.log) = 1 /\ r.log[1].e = "respond"
         /\ (\E i \in 1..Len(requiredDocs) : Falsy(FirstFile(r.files, requiredDocs[i]))) =>
              EventsOf(r, "upload.start") = <<>>

\* A request with a complete, valid body and one document missing has been
\* answered DOCUMENT_REQUIRED.
C4_Witness ==
  \E q \in Reqs :
    /\ Done(q, "createRestaurant")
    /\ FailingChecks(req[q].body, req[q].files) = {5}
    /\ req[q].resp.code = "DOCUMENT_REQUIRED"
    /\ req[q].resp.status = 400

\* C9: the response of a createRestaurant request that fails some of the six
\* checks is the one of the first check it fails, in the order required
\* fields, password, foodType, openingHours, documents, payment methods; a
\* password of fewer than 8 characters is rejected whatever the later fields.
C9_FirstFailingCheckAnswers ==
  \A q \in Reqs :
    LET r == req[q]
        failing == FailingChecks(r.body, r.files)
        first == CHOOSE i \in failing : \A j \in failing : i <= j
        password == Prop(r.body, "password")
    IN Done(q, "createRestaurant") =>
         /\ failing # {} =>
              /\ r.resp.status = 400
              /\ <<r.resp.code, r.resp.message>> = CheckAnswer(first)
         /\ (password.t = "string" /\ Len(password.v) < 8) =>
              /\ r.resp.status = 400
              /\ 1 \notin failing => r.resp.code = "WEAK_PASSWORD"

\* A request failing the password, the foodType, the openingHours, the
\* documents and the payment methods together has been answered
\* WEAK_PASSWORD.
C9_Witness ==
  \E q \in Reqs :
    /\ Done(q, "createRestaurant")
    /\ FailingChecks(req[q].body, req[q].files) = {2, 3, 4, 5, 6}
    /\ req[q].resp.code = "WEAK_PASSWORD"

\* The operations that take a restaurantId.
IdOps ==
  {"updateRestaurant", "deleteRestaurant", "getRestaurantById", "updateBusinessHours",
   "addKyc", "getKyc", "addServiceArea", "getRestaurantMenu"}

\* C5: a request of an operation that takes a restaurantId, with an id that
\* is no ObjectId, is answered 400 without any lookup.
C5_MalformedIdIs400 ==
  \A q \in Reqs :
    (req[q].pc = "done" /\ req[q].op \in IdOps /\ ~IsValid(req[q].id)) =>
      /\ req[q].resp.status = 400
      /\ EventsOf(req[q], "findById") = <<>>

\* The number a string of digits writes.
RECURSIVE Number(_)
Number(s) ==
  IF s = <<>> THEN 0
  ELSE 10 * Number(SubSeq(s, 1, Len(s) - 1))
       + (CHOOSE n \in 0..9 : <<"0", "1", "2", "3", "4", "5", "6", "7", "8", "9">>[n + 1] = s[Len(s)])

\* A time of day on the 24-hour clock: an hour from 0 to 23 in one or two
\* digits, a colon, a minute from 00 to 59 in two digits.
IsClockTime(x) ==
  /\ x.t = "string"
  /\ \E k \in 2..3 :
       /\ Len(x.v) = k + 2
       /\ x.v[k] = ":"
       /\ \A i \in DOMAIN x.v : i # k => x.v[i] \in Digits
       /\ Number(SubSeq(x.v, 1, k - 1)) <= 23
       /\ Number(SubSeq(x.v, k + 1, k + 2)) <= 59

Weekdays ==
  {"monday", "tuesday", "wednesday", "thursday", "friday", "saturday", "sunday"}

WellFormedHours(businessHours) ==
  \A i \in DOMAIN businessHours.v :
    LET day == businessHours.v[i][1]
        times == businessHours.v[i][2]
    IN /\ day \in Weekdays
       /\ \/ Prop(times, "closed") = Bool(TRUE)
          \/ IsClockTime(Prop(times, "startTime")) /\ IsClockTime(Prop(times, "endTime"))

MondayClosed == Hours(<< <<"monday", Closed>> >>)

StartsAt25(body) ==
  LET businessHours == Prop(body, "businessHours")
  IN /\ businessHours.t = "object"
     /\ \E i \in DOMAIN businessHours.v :
          Prop(businessHours.v[i][2], "startTime") = T("2", "5", "0", "0")

Saved(r) == \E i \in DOMAIN r.log : r.log[i].e = "save" /\ r.log[i].data = "saved"

PolygonList(body) ==
  LET list == Prop(body, "serviceAreas")
  IN /\ list.t = "array"
     /\ Len(list.v) > 0
     /\ \A i \in DOMAIN list.v :
          /\ Prop(list.v[i], "type") = Str(<<"P", "o", "l", "y", "g", "o", "n">>)
          /\ Prop(list.v[i], "coordinates").t = "array"
          /\ Prop(list.v[i], "coordinates").v # <<>>

UrlsIn(kycDocuments) ==
  {kycDocuments.v[k] : k \in DOMAIN kycDocuments.v}

\* The URLs of the uploads of r that gave a result.
UploadedUrls(r) ==
  IF EventsOf(r, "uploads") = <<>> THEN {}
  ELSE LET run == EventsOf(r, "uploads")[1].data
       IN {UrlOf(r.files.v[i].v.path) : i \in {j \in DOMAIN run : run[j] = "ok"}}

\* C8: an addKyc request that found its restaurant, with no upload raising
\* and no save failing, answers 200; the step in which an addKyc request
\* answers 200 leaves in the restaurant's kycDocuments every URL stored
\* before, the three of createRestaurant included, and the URLs of the
\* uploads that gave a result, and leaves kycStatus pending; an upload that
\* gave no result adds nothing and fails nothing.
C8_AddKycAppends ==
  [][\A q \in Reqs :
       /\ (/\ req[q].pc # "done" /\ Done(q, "addKyc")'
           /\ Pos(req'[q], "findById") > 0
           /\ \A i \in DOMAIN req'[q].log :
                /\ req'[q].log[i].e = "findById" => req'[q].log[i].data = "found"
                /\ req'[q].log[i].e = "save" => req'[q].log[i].data = "saved"
                /\ req'[q].log[i].e = "uploads" =>
                     \A j \in DOMAIN req'[q].log[i].data : req'[q].log[i].data[j] # "throw") =>
            req'[q].resp.status = 200
       /\ Answers(q, "addKyc", 200) =>
            /\ restaurants'[req[q].id].kycStatus = "pending"
            /\ UrlsIn(restaurants'[req[q].id].kycDocuments)
                 = UrlsIn(restaurants[req[q].id].kycDocuments) \cup UploadedUrls(req'[q])
    ]_vars

\* The restaurant a createRestaurant request has created, NoId when its
\* Restaurant.create has not run or has raised.
CreatedBy(r) ==
  IF Len(EventsOf(r, "Restaurant.create")) = 0 THEN NoId
  ELSE EventsOf(r, "Restaurant.create")[1].id

\* C11: the step in which Permission.create of a createRestaurant request
\* ends without a Permission record answers the request with a 500, not 201,
\* and leaves the Restaurant store as it was, the new restaurant in it and no
\* Permission record for it; and as long as that response stands, the
\* restaurant is in the store without a Permission record.
C11_FailedBootstrapKeepsRestaurant ==
  /\ [][\A q \in Reqs :
          ( /\ req[q].op = "createRestaurant"
            /\ req[q].pc = "Permission.create"
            /\ req'[q].pc # "Permission.create"
            /\ permissions' = permissions )
          => LET id == req[q].local.newRestaurant
             IN /\ req'[q].pc = "done"
                /\ req'[q].resp.status = 500
                /\ req'[q].resp.code # "RESTAURANT_CREATED"
                /\ restaurants' = restaurants
                /\ id \in DOMAIN restaurants'
                /\ \A i \in DOMAIN permissions' : permissions'[i].restaurantId # id
                /\ Len(EventsOf(req'[q], "Permission.create")) = 1
                /\ Len(EventsOf(req'[q], "restaurant.deleteOne")) = 0
       ]_vars
  /\ [](\A q \in Reqs :
          ( /\ Done(q, "createRestaurant")
            /\ req[q].resp.status # 201
            /\ CreatedBy(req[q]) # NoId )
          => /\ Exists(CreatedBy(req[q]))
             /\ Len(PermissionsOf(CreatedBy(req[q]))) = 0)

\* A request whose Restaurant.create succeeded and whose Permission.create
\* raised has answered 500; its restaurant is stored with no Permission.
C11_Witness ==
  \E q \in Reqs :
    /\ Done(q, "createRestaurant")
    /\ req[q].resp.status = 500
    /\ CreatedBy(req[q]) # NoId
    /\ Len(EventsOf(req[q], "Permission.create")) = 1
    /\ Exists(CreatedBy(req[q]))
    /\ Len(PermissionsOf(CreatedBy(req[q]))) = 0

\* The URLs an addKyc request appends: those of its uploads that gave a
\* result, in the order of the files.
AppendedUrls(r) ==
  IF EventsOf(r, "uploads") = <<>> THEN <<>>
  ELSE LET run == EventsOf(r, "uploads")[1].data
           given == SelectSeq([i \in 1..Len(r.files.v) |-> i], LAMBDA i : run[i] = "ok")
       IN [k \in 1..Len(given) |-> UrlOf(r.files.v[given[k]].v.path)]

====
